---- MODULE Spec2Model ----
(***************************************************************************)
(* A model of secure_login.py: the SecureLoginSystem class (the users      *)
(* table, the logged-in user, salted password hashing, TOTP generation and *)
(* verification, register / login / enable 2FA / logout).                  *)
(*                                                                         *)
(* Python strings are TLA+ strings, except the base32 text of a TOTP       *)
(* secret, which is a sequence of one-character strings because it is      *)
(* decoded character by character.  Python's None is the string None in a  *)
(* string position and the one-element sequence NULL in the secret column. *)
(*                                                                         *)
(* Two library primitives are modelled symbolically: SHA-256 as an         *)
(* injective function of its input (sha256), and HMAC-SHA1 as a fixed      *)
(* deterministic function of key and message to 20 bytes (HmacSha1).       *)
(* Everything around them (salting, the counter, its packing, the dynamic  *)
(* truncation, the decimal rendering, base32) is computed as the code      *)
(* computes it.                                                            *)
(***************************************************************************)
EXTENDS Integers, Sequences, FiniteSets, TLC

VARIABLES
    users,          \* the rows of table users, in insertion order (lines 21-30)
    current_user,   \* self.current_user (line 17)
    now,            \* time.time(), in whole seconds
    enrolled,       \* history: username -> the password given at registration
    last,           \* history: the most recent call, its arguments and result;
                    \*          for a login, the window it was made in, whether
                    \*          it follows a login of the same username that
                    \*          returned 2FA_REQUIRED, and that login's window
    hcall,          \* the hash_password call under test (SpecHash only)
    reg,            \* the two concurrent register_user calls (SpecRace only)
    tcall,          \* the TOTP code under test (SpecTotp only)
    mac             \* the MAC under truncation (SpecTrunc only)

vars == <<users, current_user, now, enrolled, last, hcall, reg, tcall, mac>>

-----------------------------------------------------------------------------
(* Bounds of the model. *)

\* The clock stops at MaxTime seconds.
MaxTime == 30

(* Program constants. *)

\* time_step=30 (line 61).
TimeStep == 30
\* zfill(6) (line 75).
CodeDigits == 6
\* binary % 1000000 (line 75).
CodeModulus == 1000000
\* The length of an HMAC-SHA1 digest (line 68).
MacLen == 20

\* One clock tick advances the clock by half a time step.
TickStep == TimeStep \div 2

(* Python's None, in a string position. *)
None == "None"
(* SQL NULL in column two_factor_secret (line 28), and None for a secret. *)
NULL == <<"NULL">>

(* The inputs of the model. *)
Usernames == {"alice", "bob"}
Passwords == {"Secret123!", ""}
\* secrets.token_hex(16): 32 hexadecimal characters (line 36).
RandomSalts == {"000102030405060708090a0b0c0d0e0f", "f0e1d2c3b4a5968778695a4b3c2d1e0f"}
\* os.urandom(10) (line 89).
RandomBytes == { <<0, 1, 2, 3, 4, 5, 6, 7, 8, 9>>,
                 <<255, 128, 64, 32, 16, 8, 4, 2, 1, 0>> }

-----------------------------------------------------------------------------
(* Python truthiness of a string or None: `not x`. *)
Falsy(x) == x = None \/ x = ""

(* hashlib.sha256(data).hexdigest(): symbolic, injective in data. *)
sha256(data) == "sha256(" \o data \o ")"

(* hash_password (lines 33-39); fresh is what secrets.token_hex(16) draws. *)
hash_password_nosalt(password, salt, fresh) ==
    [password_hash |-> sha256(password), salt |-> IF Falsy(salt) THEN fresh ELSE salt]
hash_password(password, salt, fresh) ==
    LET s == IF Falsy(salt) THEN fresh ELSE salt
    IN  [password_hash |-> sha256(s \o password), salt |-> s]

-----------------------------------------------------------------------------
(* base32 (RFC 4648), for inputs whose length is a multiple of 5 bytes. *)
B32Alphabet == << "A", "B", "C", "D", "E", "F", "G", "H", "I", "J", "K", "L", "M",
                  "N", "O", "P", "Q", "R", "S", "T", "U", "V", "W", "X", "Y", "Z",
                  "2", "3", "4", "5", "6", "7" >>

Pow2(k) == CASE k = 0 -> 1 [] k = 1 -> 2 [] k = 2 -> 4 [] k = 3 -> 8 [] k = 4 -> 16
             [] k = 5 -> 32 [] k = 6 -> 64 [] k = 7 -> 128

\* Bit j (1 = most significant bit of the first byte) of a byte sequence.
BitOf(bytes, j) == (bytes[((j - 1) \div 8) + 1] \div Pow2(7 - ((j - 1) % 8))) % 2

\* base64.b32encode(bytes).decode('utf-8') (line 89).
b32encode(bytes) ==
    [g \in 1..((Len(bytes) * 8) \div 5) |->
        B32Alphabet[1 + BitOf(bytes, 5 * g - 4) * 16 + BitOf(bytes, 5 * g - 3) * 8
                      + BitOf(bytes, 5 * g - 2) * 4 + BitOf(bytes, 5 * g - 1) * 2
                      + BitOf(bytes, 5 * g)]]

B32Value(c) == (CHOOSE i \in 1..32 : B32Alphabet[i] = c) - 1

\* Bit j of the 5-bit groups of a base32 text.
B32BitOf(text, j) == (B32Value(text[((j - 1) \div 5) + 1]) \div Pow2(4 - ((j - 1) % 5))) % 2

\* base64.b32decode(secret, True) (line 68).
b32decode(text) ==
    [b \in 1..((Len(text) * 5) \div 8) |->
        B32BitOf(text, 8 * b - 7) * 128 + B32BitOf(text, 8 * b - 6) * 64
      + B32BitOf(text, 8 * b - 5) * 32 + B32BitOf(text, 8 * b - 4) * 16
      + B32BitOf(text, 8 * b - 3) * 8 + B32BitOf(text, 8 * b - 2) * 4
      + B32BitOf(text, 8 * b - 1) * 2 + B32BitOf(text, 8 * b)]

-----------------------------------------------------------------------------
(* TOTP (lines 61-80). *)

RECURSIVE ByteAt(_, _)
\* Byte k (0 = least significant) of a non-negative integer.
ByteAt(n, k) == IF k = 0 THEN n % 256 ELSE ByteAt(n \div 256, k - 1)

\* struct.pack('>Q', counter) (line 65).
PackQ(counter) == [i \in 1..8 |-> ByteAt(counter, 8 - i)]

RECURSIVE SumSeq(_)
SumSeq(s) == IF s = <<>> THEN 0 ELSE Head(s) + SumSeq(Tail(s))

RECURSIVE Weighted(_)
Weighted(s) == IF s = <<>> THEN 0 ELSE (Len(s) * Head(s) + Weighted(Tail(s))) % 251

\* hmac.new(key, msg, hashlib.sha1).digest() (line 68): a fixed deterministic
\* function of key and message to 20 bytes, standing for the primitive.
HmacSha1(key, msg) ==
    [i \in 1..MacLen |->
        (SumSeq(key) * (i + 2) + Weighted(key) * 3 + (Weighted(msg) + 1) * (7 * i + 1)
           + 13 * i * i) % 256]

\* The dynamic truncation of a MAC (lines 71-72).
Offset(h) == h[Len(h)] % 16
Binary(h) ==
    LET offset == Offset(h)
    IN  (h[offset + 1] % 128) * 16777216 + (h[offset + 2] % 256) * 65536
          + (h[offset + 3] % 256) * 256 + (h[offset + 4] % 256)

DigitChars == << "0", "1", "2", "3", "4", "5", "6", "7", "8", "9" >>

RECURSIVE str(_)
\* str(n) for n >= 0 (line 75).
str(n) == IF n < 10 THEN DigitChars[n + 1] ELSE str(n \div 10) \o DigitChars[(n % 10) + 1]

RECURSIVE zfill(_, _)
\* s.zfill(width) for a string of digits (line 75).
zfill(s, width) == IF Len(s) >= width THEN s ELSE zfill("0" \o s, width)

\* int(time.time() // time_step) (line 64).
Counter(t) == t \div TimeStep

\* The code of a MAC without the padding of zfill.
CodeOfMac_nopad(h) == str(Binary(h) % CodeModulus)

\* The code of a MAC (lines 70-75).
CodeOfMac(h) == zfill(str(Binary(h) % CodeModulus), CodeDigits)

\* generate_totp_code(secret) when the counter is c (lines 65-75).
CodeOfCounter(secret, c) == CodeOfMac(HmacSha1(b32decode(secret), PackQ(c)))

\* The codes of the secrets and counters of the model, computed once.
SecretTexts == { b32encode(b) : b \in RandomBytes }
CodeTable ==
    [s \in SecretTexts |-> [c \in 0..Counter(MaxTime) |-> CodeOfCounter(s, c)]]

\* The same, looked up when it was computed before.
CodeInWindow(secret, c) ==
    IF secret \in SecretTexts /\ c \in 0..Counter(MaxTime)
    THEN CodeTable[secret][c]
    ELSE CodeOfCounter(secret, c)

\* generate_totp_code(secret) at time t (lines 61-75).
CodeAt(secret, t) == CodeInWindow(secret, Counter(t))

\* generate_totp_code taking the time itself as the counter.
generate_totp_code_nofloor(secret) == CodeInWindow(secret, now)
generate_totp_code(secret) == CodeAt(secret, now)

\* str(binary % 1000000) before zfill (line 75), when the counter is c.
UnpaddedOfCounter(secret, c) ==
    str(Binary(HmacSha1(b32decode(secret), PackQ(c))) % CodeModulus)

\* verify_totp comparing the codes as numbers.
verify_totp_numeric(secret, code) ==
    code \in {generate_totp_code(secret), UnpaddedOfCounter(secret, Counter(now))}
\* verify_totp accepting the code of the window before, too.
verify_totp_skew(secret, code) ==
    \/ generate_totp_code(secret) = code
    \/ now >= TimeStep /\ CodeAt(secret, now - TimeStep) = code
\* verify_totp (lines 77-80).
verify_totp(secret, code) == generate_totp_code(secret) = code

-----------------------------------------------------------------------------
(* The users table (lines 21-30). *)

\* SELECT ... FROM users WHERE username = ? (lines 44, 108-111).
SelectByUsername(username) == SelectSeq(users, LAMBDA r : r.username = username)

HasRecord(username) == SelectByUsername(username) # <<>>
RecordOf(username) == SelectByUsername(username)[1]

\* INSERT INTO users (...) VALUES (?, ?, ?, 0) (lines 53-56); the caller has
\* checked that the username is new.
Insert(username, password_hash, salt) ==
    Append(users, [id |-> Len(users) + 1, username |-> username,
                   password_hash |-> password_hash, password_salt |-> salt,
                   two_factor_enabled |-> 0, two_factor_secret |-> NULL])

\* The same INSERT when the caller's check may be stale: the UNIQUE constraint
\* on username (line 24) makes sqlite3 raise IntegrityError and insert nothing.
InsertUnique(username, password_hash, salt) ==
    IF HasRecord(username)
    THEN [raised |-> "IntegrityError", users |-> users]
    ELSE [raised |-> None, users |-> Insert(username, password_hash, salt)]

\* The UPDATE without its WHERE clause: it writes every row.
UpdateTwoFactor_all(username, secret) ==
    [i \in DOMAIN users |->
        [users[i] EXCEPT !.two_factor_enabled = 1, !.two_factor_secret = secret]]

\* The UPDATE setting the flag alone.
UpdateTwoFactor_flag_only(username, secret) ==
    [i \in DOMAIN users |->
        IF users[i].username = username
        THEN [users[i] EXCEPT !.two_factor_enabled = 1]
        ELSE users[i]]

\* UPDATE users SET two_factor_enabled = 1, two_factor_secret = ? WHERE
\* username = ? (lines 92-95).
UpdateTwoFactor(username, secret) ==
    [i \in DOMAIN users |->
        IF users[i].username = username
        THEN [users[i] EXCEPT !.two_factor_enabled = 1, !.two_factor_secret = secret]
        ELSE users[i]]

-----------------------------------------------------------------------------
(* The operations.  Each yields what the call returns (ret), the message   *)
(* that tells its outcome (printed), and the state it leaves.              *)

\* register_user (lines 41-59).
register_user_nocheck(username, password, fresh) ==
    IF HasRecord(username)
    THEN [ret |-> "IntegrityError", printed |-> "", users |-> users]
    ELSE LET h == hash_password(password, None, fresh)
         IN  [ret |-> "True", printed |-> "User registered successfully!",
              users |-> Insert(username, h.password_hash, h.salt)]
register_user(username, password, fresh) ==
    IF HasRecord(username)
    THEN [ret |-> "False", printed |-> "Username already exists!", users |-> users]
    ELSE LET h == hash_password(password, None, fresh)
         IN  [ret |-> "True", printed |-> "User registered successfully!",
              users |-> Insert(username, h.password_hash, h.salt)]

\* What login yields when it fails, and when it succeeds.
LoginFailed(ret, printed) ==
    [ret |-> ret, printed |-> printed, current_user |-> current_user, users |-> users]
LoginSucceeded(username) ==
    [ret |-> "True", printed |-> "Login successful!", current_user |-> username,
     users |-> users]

\* login without the password check of lines 120-124.
login_no_password(username, password, totp_code) ==
    LET user_data == SelectByUsername(username)
    IN  IF user_data = <<>>
        THEN LoginFailed("False", "Invalid username or password.")
        ELSE LET row == user_data[1]
             IN  IF row.two_factor_enabled # 0 /\ Falsy(totp_code)
                 THEN LoginFailed("2FA_REQUIRED", "Two-factor authentication is required.")
                 ELSE IF row.two_factor_enabled # 0
                         /\ ~verify_totp(row.two_factor_secret, totp_code)
                 THEN LoginFailed("False", "Invalid two-factor code.")
                 ELSE LoginSucceeded(username)

\* login asking for the second factor before it checks the password.
login_2fa_first(username, password, totp_code) ==
    LET user_data == SelectByUsername(username)
    IN  IF user_data = <<>>
        THEN LoginFailed("False", "Invalid username or password.")
        ELSE LET row == user_data[1]
                 calculated == hash_password(password, row.password_salt, None)
             IN  IF row.two_factor_enabled # 0 /\ Falsy(totp_code)
                 THEN LoginFailed("2FA_REQUIRED", "Two-factor authentication is required.")
                 ELSE IF calculated.password_hash # row.password_hash
                 THEN LoginFailed("False", "Invalid username or password.")
                 ELSE IF row.two_factor_enabled # 0
                         /\ ~verify_totp(row.two_factor_secret, totp_code)
                 THEN LoginFailed("False", "Invalid two-factor code.")
                 ELSE LoginSucceeded(username)

\* login remembering a passed password check: when the call before returned
\* 2FA_REQUIRED for this username and a code is supplied, the password is not
\* checked again.
login_pending(username, password, totp_code) ==
    LET user_data == SelectByUsername(username)
        pending == last.op = "login" /\ last.ret = "2FA_REQUIRED"
                     /\ last.username = username /\ ~Falsy(totp_code)
    IN  IF user_data = <<>>
        THEN LoginFailed("False", "Invalid username or password.")
        ELSE LET row == user_data[1]
                 calculated == hash_password(password, row.password_salt, None)
             IN  IF ~pending /\ calculated.password_hash # row.password_hash
                 THEN LoginFailed("False", "Invalid username or password.")
                 ELSE IF row.two_factor_enabled # 0 /\ Falsy(totp_code)
                 THEN LoginFailed("2FA_REQUIRED", "Two-factor authentication is required.")
                 ELSE IF row.two_factor_enabled # 0
                         /\ ~verify_totp(row.two_factor_secret, totp_code)
                 THEN LoginFailed("False", "Invalid two-factor code.")
                 ELSE LoginSucceeded(username)

\* login rejecting a code supplied for a record without 2FA.
login_unexpected_code(username, password, totp_code) ==
    LET user_data == SelectByUsername(username)
    IN  IF user_data = <<>>
        THEN LoginFailed("False", "Invalid username or password.")
        ELSE LET row == user_data[1]
                 calculated == hash_password(password, row.password_salt, None)
             IN  IF calculated.password_hash # row.password_hash
                 THEN LoginFailed("False", "Invalid username or password.")
                 ELSE IF row.two_factor_enabled # 0 /\ Falsy(totp_code)
                 THEN LoginFailed("2FA_REQUIRED", "Two-factor authentication is required.")
                 ELSE IF row.two_factor_enabled = 0 /\ ~Falsy(totp_code)
                 THEN LoginFailed("False", "Invalid two-factor code.")
                 ELSE IF row.two_factor_enabled # 0
                         /\ ~verify_totp(row.two_factor_secret, totp_code)
                 THEN LoginFailed("False", "Invalid two-factor code.")
                 ELSE LoginSucceeded(username)

\* login recording the session as soon as the password is verified, also
\* when the second factor is still missing.
login_early_session(username, password, totp_code) ==
    LET user_data == SelectByUsername(username)
    IN  IF user_data = <<>>
        THEN LoginFailed("False", "Invalid username or password.")
        ELSE LET row == user_data[1]
                 calculated == hash_password(password, row.password_salt, None)
             IN  IF calculated.password_hash # row.password_hash
                 THEN LoginFailed("False", "Invalid username or password.")
                 ELSE IF row.two_factor_enabled # 0 /\ Falsy(totp_code)
                 THEN [LoginFailed("2FA_REQUIRED", "Two-factor authentication is required.")
                          EXCEPT !.current_user = username]
                 ELSE IF row.two_factor_enabled # 0
                         /\ ~verify_totp(row.two_factor_secret, totp_code)
                 THEN LoginFailed("False", "Invalid two-factor code.")
                 ELSE LoginSucceeded(username)

\* login ending the session in place when the second factor is rejected.
login_logout_on_failure(username, password, totp_code) ==
    LET user_data == SelectByUsername(username)
    IN  IF user_data = <<>>
        THEN LoginFailed("False", "Invalid username or password.")
        ELSE LET row == user_data[1]
                 calculated == hash_password(password, row.password_salt, None)
             IN  IF calculated.password_hash # row.password_hash
                 THEN LoginFailed("False", "Invalid username or password.")
                 ELSE IF row.two_factor_enabled # 0 /\ Falsy(totp_code)
                 THEN LoginFailed("2FA_REQUIRED", "Two-factor authentication is required.")
                 ELSE IF row.two_factor_enabled # 0
                         /\ ~verify_totp(row.two_factor_secret, totp_code)
                 THEN [LoginFailed("False", "Invalid two-factor code.")
                          EXCEPT !.current_user = None]
                 ELSE LoginSucceeded(username)

\* login (lines 105-139).
login(username, password, totp_code) ==
    LET user_data == SelectByUsername(username)
    IN  IF user_data = <<>>
        THEN LoginFailed("False", "Invalid username or password.")
        ELSE LET row == user_data[1]
                 calculated == hash_password(password, row.password_salt, None)
             IN  IF calculated.password_hash # row.password_hash
                 THEN LoginFailed("False", "Invalid username or password.")
                 ELSE IF row.two_factor_enabled # 0 /\ Falsy(totp_code)
                 THEN LoginFailed("2FA_REQUIRED", "Two-factor authentication is required.")
                 ELSE IF row.two_factor_enabled # 0
                         /\ ~verify_totp(row.two_factor_secret, totp_code)
                 THEN LoginFailed("False", "Invalid two-factor code.")
                 ELSE LoginSucceeded(username)

\* enable_2fa without the check of the session.
enable_2fa_any(username, random) ==
    LET secret == b32encode(random)
    IN  [ret |-> "secret", printed |-> "Two-factor authentication enabled!",
         secret |-> secret, users |-> UpdateTwoFactor(username, secret)]

\* enable_2fa (lines 82-103); random is what os.urandom(10) draws.
enable_2fa(username, random) ==
    IF Falsy(current_user) \/ current_user # username
    THEN [ret |-> "None", printed |-> "You must be logged in to enable 2FA.",
          secret |-> NULL, users |-> users]
    ELSE LET secret == b32encode(random)
         IN  [ret |-> "secret", printed |-> "Two-factor authentication enabled!",
              secret |-> secret, users |-> UpdateTwoFactor(username, secret)]

\* logout (lines 141-147).
logout ==
    IF ~Falsy(current_user)
    THEN [printed |-> "Goodbye!", current_user |-> None]
    ELSE [printed |-> "No user is currently logged in.", current_user |-> current_user]

\* display_users (lines 149-165): it prints the table and changes nothing.
display_users ==
    [printed |-> IF users = <<>> THEN "No users registered." ELSE "Registered Users:"]

-----------------------------------------------------------------------------
(* The codes a login attempt for username may carry: none, the empty       *)
(* string, a malformed one, and the codes of the user's stored secret for  *)
(* the current and for the previous window.                                *)
StoredSecrets(username) ==
    { users[i].two_factor_secret : i \in { j \in DOMAIN users : users[j].username = username } }
        \ {NULL}
TotpInputs(username) ==
    {None, "", "12345"}
        \cup { CodeAt(s, now) : s \in StoredSecrets(username) }
        \cup { CodeAt(s, now - TimeStep) :
                  s \in IF now >= TimeStep THEN StoredSecrets(username) ELSE {} }

NoCall == [op |-> "none", username |-> None, password |-> None, totp_code |-> None,
           ret |-> None, printed |-> "", secret |-> NULL, follows2fa |-> FALSE,
           window |-> -1, required_in |-> -1]
NoHash == [password |-> None, salt |-> None, password_hash |-> None,
           out_salt |-> None, verified |-> None]
\* The callers of the concurrent register_user calls.
Procs == {"A", "B"}
NoRegister == [pc |-> "idle", username |-> None, password |-> None, fresh |-> None,
               ret |-> None, found |-> FALSE]
NoTotp == [secret |-> NULL, code |-> None, kind |-> "none", gen_time |-> -1,
           verified |-> None, ver_time |-> -1]
NoMac == [h |-> <<>>, offset |-> -1, binary |-> -1, code |-> None]

Init ==
    /\ users = <<>>
    /\ current_user = None
    /\ now = 0
    /\ enrolled = [u \in Usernames |-> None]
    /\ last = NoCall
    /\ hcall = NoHash
    /\ reg = [p \in Procs |-> NoRegister]
    /\ tcall = NoTotp
    /\ mac = NoMac

\* The call before was a login of username that returned 2FA_REQUIRED.
Follows2fa(username) ==
    last.op = "login" /\ last.ret = "2FA_REQUIRED" /\ last.username = username

Register(username, password, fresh) ==
    LET r == register_user(username, password, fresh)
    IN  /\ users' = r.users
        /\ enrolled' = IF r.ret = "True" THEN [enrolled EXCEPT ![username] = password]
                       ELSE enrolled
        /\ last' = [NoCall EXCEPT !.op = "register_user", !.username = username,
                                  !.password = password, !.ret = r.ret,
                                  !.printed = r.printed]
        /\ UNCHANGED <<current_user, now, hcall, reg, tcall, mac>>

Login(username, password, totp_code) ==
    LET r == login(username, password, totp_code)
    IN  /\ users' = r.users
        /\ current_user' = r.current_user
        /\ last' = [NoCall EXCEPT !.op = "login", !.username = username,
                                  !.password = password, !.totp_code = totp_code,
                                  !.ret = r.ret, !.printed = r.printed,
                                  !.follows2fa = Follows2fa(username),
                                  !.window = Counter(now),
                                  !.required_in = IF Follows2fa(username)
                                                  THEN last.window ELSE -1]
        /\ UNCHANGED <<now, enrolled, hcall, reg, tcall, mac>>

Enable2FA(username, random) ==
    LET r == enable_2fa(username, random)
    IN  /\ users' = r.users
        /\ last' = [NoCall EXCEPT !.op = "enable_2fa", !.username = username,
                                  !.ret = r.ret, !.printed = r.printed,
                                  !.secret = r.secret]
        /\ UNCHANGED <<current_user, now, enrolled, hcall, reg, tcall, mac>>

Logout ==
    LET r == logout
    IN  /\ current_user' = r.current_user
        /\ last' = [NoCall EXCEPT !.op = "logout", !.printed = r.printed]
        /\ UNCHANGED <<users, now, enrolled, hcall, reg, tcall, mac>>

DisplayUsers ==
    /\ last' = [NoCall EXCEPT !.op = "display_users", !.printed = display_users.printed]
    /\ UNCHANGED <<users, current_user, now, enrolled, hcall, reg, tcall, mac>>

\* The clock advances between calls.
Tick ==
    /\ now + TickStep <= MaxTime
    /\ now' = now + TickStep
    /\ UNCHANGED <<users, current_user, enrolled, last, hcall, reg, tcall, mac>>

Next ==
    \/ \E u \in Usernames, p \in Passwords, s \in RandomSalts : Register(u, p, s)
    \/ \E u \in Usernames, p \in Passwords : \E c \in TotpInputs(u) : Login(u, p, c)
    \/ \E u \in Usernames, b \in RandomBytes : Enable2FA(u, b)
    \/ Logout
    \/ DisplayUsers
    \/ Tick

Spec == Init /\ [][Next]_vars

-----------------------------------------------------------------------------
(* hash_password on its own: one call with a password and a salt argument, *)
(* then the recomputation that verifies the password against the digest.   *)
HashPasswords == Passwords \cup {"a", "ab", "abc"}
HashSalts == {None, "", "a", "ab"} \cup RandomSalts
HashRandom == RandomSalts \cup {"00112233445566778899aabbccddeeff"}

\* hash_password(password, salt) is called.
HashPassword(password, salt, fresh) ==
    /\ hcall = NoHash
    /\ LET h == hash_password(password, salt, fresh)
       IN  hcall' = [password |-> password, salt |-> salt,
                     password_hash |-> h.password_hash, out_salt |-> h.salt,
                     verified |-> None]
    /\ UNCHANGED <<users, current_user, now, enrolled, last, reg, tcall, mac>>

\* The digest is recomputed with the same salt argument and compared, as
\* login does (lines 121-122).
VerifyPassword(fresh) ==
    /\ hcall # NoHash
    /\ hcall.verified = None
    /\ LET h == hash_password(hcall.password, hcall.salt, fresh)
       IN  hcall' = [hcall EXCEPT !.verified =
                        IF h.password_hash = hcall.password_hash THEN "True" ELSE "False"]
    /\ UNCHANGED <<users, current_user, now, enrolled, last, reg, tcall, mac>>

NextHash ==
    \/ \E p \in HashPasswords, s \in HashSalts, f \in HashRandom : HashPassword(p, s, f)
    \/ \E f \in HashRandom : VerifyPassword(f)

SpecHash == Init /\ [][NextHash]_vars

-----------------------------------------------------------------------------
(* Two register_user calls on the same users table, each by a caller of    *)
(* its own, interleaved statement by statement: the SELECT of line 44 and  *)
(* the INSERT of lines 53-56 are separate steps.                           *)
InitRace ==
    /\ users = <<>>
    /\ current_user = None
    /\ now = 0
    /\ enrolled = [u \in Usernames |-> None]
    /\ last = NoCall
    /\ hcall = NoHash
    /\ reg \in [Procs -> { [NoRegister EXCEPT !.pc = "select", !.username = u,
                                               !.password = p, !.fresh = f] :
                              u \in Usernames, p \in Passwords, f \in RandomSalts }]
    /\ tcall = NoTotp
    /\ mac = NoMac

\* Lines 44-47: the existence check.
RegisterSelect(p) ==
    /\ reg[p].pc = "select"
    /\ reg' = IF HasRecord(reg[p].username)
              THEN [reg EXCEPT ![p].pc = "done", ![p].ret = "False", ![p].found = TRUE]
              ELSE [reg EXCEPT ![p].pc = "insert"]
    /\ UNCHANGED <<users, current_user, now, enrolled, last, hcall, tcall, mac>>

\* Lines 50-59: the hash, the INSERT and the return.
RegisterInsert(p) ==
    /\ reg[p].pc = "insert"
    /\ LET h == hash_password(reg[p].password, None, reg[p].fresh)
           r == InsertUnique(reg[p].username, h.password_hash, h.salt)
       IN  /\ users' = r.users
           /\ reg' = [reg EXCEPT ![p].pc = "done",
                                 ![p].ret = IF r.raised = None THEN "True" ELSE r.raised]
           /\ enrolled' = IF r.raised = None
                          THEN [enrolled EXCEPT ![reg[p].username] = reg[p].password]
                          ELSE enrolled
    /\ UNCHANGED <<current_user, now, last, hcall, tcall, mac>>

NextRace == \E p \in Procs : RegisterSelect(p) \/ RegisterInsert(p)

SpecRace == InitRace /\ [][NextRace]_vars

-----------------------------------------------------------------------------
(* generate_totp_code and verify_totp on their own: a code is generated    *)
(* for a secret, or a malformed one is submitted, the clock moves, and the *)
(* code is verified.                                                       *)

\* Submitted strings that are no six-digit code: empty, too short, too long,
\* with a character that is no digit, and the current code without its
\* leading zeros.
MalformedCodes(secret) ==
    {"", "12345", "1234567", "abcdef", "12345a"}
        \cup { c \in {UnpaddedOfCounter(secret, Counter(now))} : Len(c) < CodeDigits }

\* generate_totp_code(secret) is called (lines 61-75).
TotpGenerate(random) ==
    /\ LET secret == b32encode(random)
       IN  tcall' = [NoTotp EXCEPT !.secret = secret, !.kind = "generated",
                                   !.code = generate_totp_code(secret),
                                   !.gen_time = now]
    /\ UNCHANGED <<users, current_user, now, enrolled, last, hcall, reg, mac>>

\* A malformed code is submitted for a secret.
TotpSubmit(random, code) ==
    /\ tcall' = [NoTotp EXCEPT !.secret = b32encode(random), !.kind = "malformed",
                               !.code = code, !.gen_time = now]
    /\ UNCHANGED <<users, current_user, now, enrolled, last, hcall, reg, mac>>

\* verify_totp(secret, code) is called (lines 77-80).
TotpVerify ==
    /\ tcall.kind # "none"
    /\ tcall.verified = None
    /\ tcall' = [tcall EXCEPT !.verified = IF verify_totp(tcall.secret, tcall.code)
                                           THEN "True" ELSE "False",
                              !.ver_time = now]
    /\ UNCHANGED <<users, current_user, now, enrolled, last, hcall, reg, mac>>

\* time.time() is the wall clock: it may be set back.
ClockBack ==
    /\ now >= TickStep
    /\ now' = now - TickStep
    /\ UNCHANGED <<users, current_user, enrolled, last, hcall, reg, tcall, mac>>

NextTotp ==
    \/ \E b \in RandomBytes : TotpGenerate(b)
    \/ \E b \in RandomBytes : \E c \in MalformedCodes(b32encode(b)) : TotpSubmit(b, c)
    \/ TotpVerify
    \/ Tick
    \/ ClockBack

SpecTotp == Init /\ [][NextTotp]_vars

-----------------------------------------------------------------------------
(* The dynamic truncation of lines 70-75 on its own, applied to 20-byte    *)
(* MACs: every value of the low nibble of the last byte, with the high     *)
(* nibble clear and set, over bodies of extreme and of mixed bytes.        *)

MacBodies ==
    { [i \in 1..(MacLen - 1) |-> 0], [i \in 1..(MacLen - 1) |-> 255],
      [i \in 1..(MacLen - 1) |-> 127], [i \in 1..(MacLen - 1) |-> 128],
      [i \in 1..(MacLen - 1) |-> (17 * i + 5) % 256],
      [i \in 1..(MacLen - 1) |-> IF i % 4 = 0 THEN 1 ELSE 0] }

MacInputs ==
    { Append(body, 16 * hi + lo) : body \in MacBodies, hi \in {0, 9, 15}, lo \in 0..15 }

InitTrunc ==
    /\ users = <<>>
    /\ current_user = None
    /\ now = 0
    /\ enrolled = [u \in Usernames |-> None]
    /\ last = NoCall
    /\ hcall = NoHash
    /\ reg = [p \in Procs |-> NoRegister]
    /\ tcall = NoTotp
    /\ mac \in { [NoMac EXCEPT !.h = h] : h \in MacInputs }

\* Lines 70-75 on the MAC drawn.
Truncate ==
    /\ mac.offset = -1
    /\ mac' = [mac EXCEPT !.offset = Offset(mac.h), !.binary = Binary(mac.h),
                          !.code = CodeOfMac(mac.h)]
    /\ UNCHANGED <<users, current_user, now, enrolled, last, hcall, reg, tcall>>

NextTrunc == Truncate

SpecTrunc == InitTrunc /\ [][NextTrunc]_vars

-----------------------------------------------------------------------------
(* The claims. *)

\* The record a username resolves to has 2FA enabled.
TwoFactorOn(username) == HasRecord(username) /\ RecordOf(username).two_factor_enabled # 0

\* The code of a user's stored secret for the current window.
CurrentCode(username) == CodeInWindow(RecordOf(username).two_factor_secret, Counter(now))

\* What a login call yields to its caller.
Returned(r) == <<r.ret, r.printed>>

(* C1: in every reachable state, a login call returns True (and sets       *)
(* current_user) only if the username has a record, the password is the    *)
(* one the user registered with and, when the record has 2FA enabled, the  *)
(* code is the one of the stored secret for the current 30-second window.  *)
C1_SuccessOnlyIfAuthentic ==
    \A u \in Usernames, p \in Passwords : \A c \in TotpInputs(u) :
        login(u, p, c).ret = "True" =>
            /\ HasRecord(u)
            /\ p = enrolled[u]
            /\ TwoFactorOn(u) => c = CurrentCode(u)

C1_Witness ==
    /\ last.op = "login" /\ last.ret = "True"
    /\ current_user = last.username
    /\ TwoFactorOn(last.username)
    /\ last.totp_code = CurrentCode(last.username)
    /\ now >= TimeStep

(* C2: in every reachable state, a login with a username that has no       *)
(* record and a login with a registered username and a wrong password      *)
(* yield the same returned value, the same message and the same state,     *)
(* whatever codes are supplied and whether or not 2FA is enabled.          *)
C2_NonEnumeration ==
    \A u1, u2 \in Usernames, p1, p2 \in Passwords :
        \A c1 \in TotpInputs(u1) \cup TotpInputs(u2), c2 \in TotpInputs(u2) :
            (~HasRecord(u1) /\ HasRecord(u2) /\ p2 # enrolled[u2]) =>
                login(u1, p1, c1) = login(u2, p2, c2)

C2_Witness ==
    /\ last.op = "login" /\ last.ret = "False"
    /\ TwoFactorOn(last.username)
    /\ last.password # enrolled[last.username]
    /\ last.totp_code = None
    /\ \E u \in Usernames : ~HasRecord(u)

(* C3: the value a login call returns identifies its outcome: two login    *)
(* calls that return the same value have the same outcome, so a correct    *)
(* password with a wrong code is not answered with the value returned for  *)
(* a wrong password.                                                       *)
C3_ReturnIdentifiesOutcome ==
    \A u1, u2 \in Usernames, p1, p2 \in Passwords :
        \A c1 \in TotpInputs(u1), c2 \in TotpInputs(u2) :
            LET r1 == login(u1, p1, c1)
                r2 == login(u2, p2, c2)
            IN  /\ r1.ret \in {"True", "False", "2FA_REQUIRED"}
                /\ r1.ret = r2.ret => r1.printed = r2.printed

(* C4: the outcome of a login call is a function of the record the         *)
(* username resolves to, the attempt and the current window only: it is    *)
(* AuthDecision of them, whatever calls came before.  After a login that   *)
(* returned 2FA_REQUIRED, a login of the same user with a wrong password   *)
(* is answered as a wrong password, also with a valid code.                *)
AuthDecision(user_data, password, totp_code, window) ==
    IF user_data = <<>> THEN <<"False", "Invalid username or password.">>
    ELSE IF sha256(user_data[1].password_salt \o password) # user_data[1].password_hash
    THEN <<"False", "Invalid username or password.">>
    ELSE IF user_data[1].two_factor_enabled = 0 THEN <<"True", "Login successful!">>
    ELSE IF totp_code \in {None, ""}
    THEN <<"2FA_REQUIRED", "Two-factor authentication is required.">>
    ELSE IF totp_code = CodeInWindow(user_data[1].two_factor_secret, window)
    THEN <<"True", "Login successful!">>
    ELSE <<"False", "Invalid two-factor code.">>

C4_StatelessLogin ==
    /\ \A u \in Usernames, p \in Passwords : \A c \in TotpInputs(u) :
          Returned(login(u, p, c)) =
              AuthDecision(SelectByUsername(u), p, c, Counter(now))
    /\ (last.op = "login" /\ last.follows2fa
          /\ last.password # enrolled[last.username]) =>
          <<last.ret, last.printed>> = <<"False", "Invalid username or password.">>

C4_Witness ==
    /\ last.op = "login" /\ last.follows2fa
    /\ last.password # enrolled[last.username]
    /\ last.totp_code = CurrentCode(last.username)
    /\ last.ret = "False"

(* C5: for a record with 2FA enabled and the registered password, login    *)
(* returns 2FA_REQUIRED exactly when no code is supplied (None); with any  *)
(* supplied string it returns True when the string is the current code and *)
(* reports an invalid two-factor code otherwise.                           *)
C5_CodeSuppliedIsVerified ==
    \A u \in Usernames : \A c \in TotpInputs(u) :
        (TwoFactorOn(u) /\ enrolled[u] # None) =>
            LET r == login(u, enrolled[u], c)
            IN  /\ r.ret = "2FA_REQUIRED" <=> c = None
                /\ c # None =>
                      Returned(r) = IF c = CurrentCode(u)
                                    THEN <<"True", "Login successful!">>
                                    ELSE <<"False", "Invalid two-factor code.">>

(* C6: for a record with 2FA disabled, login with the registered password  *)
(* returns True and logs the user in, whatever code is supplied, whoever   *)
(* is logged in and whatever calls came before.                            *)
C6_NoTwoFactorLogin ==
    \A u \in Usernames : \A c \in TotpInputs(u) :
        (HasRecord(u) /\ ~TwoFactorOn(u)) =>
            LET r == login(u, enrolled[u], c)
            IN  r.ret = "True" /\ r.current_user = u

C6_Witness ==
    /\ last.op = "login" /\ last.ret = "True"
    /\ ~TwoFactorOn(last.username)
    /\ last.totp_code = "12345"
    /\ current_user = last.username
    /\ \E u \in Usernames : u # last.username /\ TwoFactorOn(u)

C8_HashVerifyRoundTrip ==
    (hcall.verified # None /\ hcall.salt # None) => hcall.verified = "True"

(* C9: in every reachable state each record's password_hash is the digest  *)
(* of its salt followed by the password given at registration, and no step *)
(* removes a record or changes its username, password_hash or salt.        *)
CredentialInv ==
    \A i \in DOMAIN users :
        /\ enrolled[users[i].username] # None
        /\ users[i].password_hash =
              sha256(users[i].password_salt \o enrolled[users[i].username])
        /\ users[i].password_salt \in RandomSalts

CredentialKept ==
    \A i \in DOMAIN users :
        /\ i \in DOMAIN users'
        /\ users'[i].username = users[i].username
        /\ users'[i].password_hash = users[i].password_hash
        /\ users'[i].password_salt = users[i].password_salt
        /\ enrolled'[users[i].username] = enrolled[users[i].username]

C9_CredentialImmutable == []CredentialInv /\ [][CredentialKept]_vars

C9_Witness ==
    /\ Len(users) = 2
    /\ users[1].password_salt # users[2].password_salt
    /\ users[1].two_factor_enabled = 1
    /\ last.op = "register_user" /\ last.ret = "False"
    /\ last.username = users[1].username
    /\ last.password # enrolled[last.username]

(* C10: register_user with a username that has a record returns False and  *)
(* leaves the table as it is; with a new username it returns True and      *)
(* appends one record, with 2FA disabled and no secret.  The table never   *)
(* holds two records with the same username.                               *)
C10_RegisterOncePerUsername ==
    /\ \A u \in Usernames, p \in Passwords, f \in RandomSalts :
          LET r == register_user(u, p, f)
          IN  IF HasRecord(u)
              THEN r.ret = "False" /\ r.users = users
              ELSE /\ r.ret = "True"
                   /\ Len(r.users) = Len(users) + 1
                   /\ SubSeq(r.users, 1, Len(users)) = users
                   /\ r.users[Len(r.users)].username = u
                   /\ r.users[Len(r.users)].two_factor_enabled = 0
                   /\ r.users[Len(r.users)].two_factor_secret = NULL
    /\ \A i, j \in DOMAIN users : users[i].username = users[j].username => i = j

C10_Witness ==
    /\ last.op = "register_user" /\ last.ret = "False"
    /\ TwoFactorOn(last.username)
    /\ Len(users) = 2

(* C11: when two register_user calls for the same new username both pass  *)
(* the existence check before either inserts, one returns True, the other  *)
(* returns False without a fault, and the table holds one record for the   *)
(* username.                                                               *)
C11_ConcurrentRegister ==
    (/\ \A p \in Procs : reg[p].pc = "done" /\ ~reg[p].found
     /\ reg["A"].username = reg["B"].username) =>
        /\ {reg["A"].ret, reg["B"].ret} = {"True", "False"}
        /\ Len(SelectByUsername(reg["A"].username)) = 1

(* C12: a generated code that is verified in the window it was generated  *)
(* in (the same counter floor(t/30)) is accepted, at the instant of        *)
(* generation and however the clock moved inside the window.               *)
C12_TotpRoundTrip ==
    (tcall.kind = "generated" /\ tcall.verified # None
        /\ Counter(tcall.gen_time) = Counter(tcall.ver_time)) =>
        tcall.verified = "True"

C12_Witness ==
    /\ tcall.kind = "generated" /\ tcall.verified = "True"
    /\ tcall.gen_time # tcall.ver_time
    /\ Counter(tcall.gen_time) = Counter(tcall.ver_time)

\* The windows of the model's clock.
Windows == 0..Counter(MaxTime)

(* C13: in every reachable state verify_totp accepts a code of the stored  *)
(* secret exactly when it is the code of the current window: the code of   *)
(* another window, earlier or later, that differs from the current one is  *)
(* rejected, and login with the registered password and that code reports  *)
(* an invalid two-factor code.  A login that follows a 2FA_REQUIRED of the *)
(* window before and carries that window's code is answered so.            *)
C13_ExactWindowOnly ==
    /\ \A u \in Usernames : \A w \in Windows :
          TwoFactorOn(u) =>
              LET secret == RecordOf(u).two_factor_secret
                  code == CodeInWindow(secret, w)
              IN  /\ verify_totp(secret, code) <=> code = CurrentCode(u)
                  /\ code # CurrentCode(u) =>
                        Returned(login(u, enrolled[u], code)) =
                            <<"False", "Invalid two-factor code.">>
    /\ (/\ last.op = "login" /\ last.required_in >= 0
        /\ last.window = last.required_in + 1
        /\ last.password = enrolled[last.username]
        /\ last.totp_code =
              CodeInWindow(RecordOf(last.username).two_factor_secret, last.required_in)
        /\ last.totp_code #
              CodeInWindow(RecordOf(last.username).two_factor_secret, last.window)) =>
          <<last.ret, last.printed>> = <<"False", "Invalid two-factor code.">>

C13_Witness ==
    /\ last.op = "login" /\ last.required_in = 0 /\ last.window = 1
    /\ last.password = enrolled[last.username]
    /\ last.totp_code = CodeInWindow(RecordOf(last.username).two_factor_secret, 0)
    /\ <<last.ret, last.printed>> = <<"False", "Invalid two-factor code.">>

(* C14: verify_totp answers a malformed code (empty, of a wrong length,    *)
(* with a character that is no digit) with False: never with True, and     *)
(* never with a fault.                                                     *)
C14_MalformedRejected ==
    (tcall.kind = "malformed" /\ tcall.ver_time >= 0) => tcall.verified = "False"

C14_Witness ==
    /\ tcall.kind = "malformed" /\ tcall.verified = "False"
    /\ tcall.code # "" /\ Len(tcall.code) < CodeDigits
    /\ tcall.code = UnpaddedOfCounter(tcall.secret, Counter(tcall.ver_time))

\* The flag and the secret of a row.
TwoFactorOf(row) == <<row.two_factor_enabled, row.two_factor_secret>>

\* What a potential call in this state would leave in the 2FA columns.
TwoFactorColumns(table) == [i \in DOMAIN table |-> TwoFactorOf(table[i])]

C15_CallsKeepTwoFactor ==
    /\ \A u \in Usernames : \A p \in Passwords : \A c \in TotpInputs(u) :
          TwoFactorColumns(login(u, p, c).users) = TwoFactorColumns(users)
    /\ \A u \in Usernames : \A p \in Passwords : \A fresh \in RandomSalts :
          LET r == register_user(u, p, fresh)
          IN  /\ Len(r.users) \in {Len(users), Len(users) + 1}
              /\ \A i \in DOMAIN users : TwoFactorOf(r.users[i]) = TwoFactorOf(users[i])
              /\ Len(r.users) > Len(users) =>
                    TwoFactorOf(r.users[Len(r.users)]) = <<0, NULL>>
    /\ \A u \in Usernames : \A b \in RandomBytes :
          LET r == enable_2fa(u, b)
          IN  /\ Len(r.users) = Len(users)
              /\ \A i \in DOMAIN users :
                    users[i].username # u => r.users[i] = users[i]

C15_StepKeepsTwoFactor ==
    /\ Len(users') >= Len(users)
    /\ \A i \in DOMAIN users :
          TwoFactorOf(users'[i]) # TwoFactorOf(users[i]) =>
              last'.op = "enable_2fa" /\ last'.username = users[i].username
    /\ \A i \in DOMAIN users' \ DOMAIN users : TwoFactorOf(users'[i]) = <<0, NULL>>

(* C15: the 2FA flag and secret of a record change only in enable_2fa of   *)
(* that record's username: register_user creates its record with the flag *)
(* 0 and no secret and touches no other, login with any outcome and logout *)
(* change none, enable_2fa(u) changes no record of another user.           *)
C15_OnlyEnableWritesTwoFactor ==
    []C15_CallsKeepTwoFactor /\ [][C15_StepKeepsTwoFactor]_vars

C15_Witness ==
    /\ last.op = "enable_2fa" /\ last.ret = "secret"
    /\ \E u \in Usernames :
          /\ u # last.username /\ TwoFactorOn(u)
          /\ RecordOf(u).two_factor_secret # last.secret

(* C16: once a record holds a secret with 2FA enabled, the secret stays    *)
(* the same while 2FA stays enabled; enable_2fa on an enabled user does    *)
(* not replace it.                                                         *)
C16_SecretGeneratedOnce ==
    [][\A i \in DOMAIN users :
          (users[i].two_factor_enabled = 1 /\ users'[i].two_factor_enabled = 1) =>
              users'[i].two_factor_secret = users[i].two_factor_secret]_vars

C17_RefusedWithoutSession ==
    \A u \in Usernames : \A b \in RandomBytes :
        LET r == enable_2fa(u, b)
        IN  /\ (Falsy(current_user) \/ current_user # u) =>
                  r.ret = "None" /\ r.users = users
            /\ r.users # users => current_user = u

C17_StepNeedsSession ==
    /\ users' # users /\ last'.op = "enable_2fa" => current_user = last'.username
    /\ last'.op = "enable_2fa" /\ last'.ret = "None" /\ last' # last =>
          users' = users /\ current_user' = current_user
    /\ \A i \in DOMAIN users :
          users[i].two_factor_enabled = 0 /\ users'[i].two_factor_enabled # 0 =>
              current_user = users[i].username /\ current_user' = current_user
    /\ (current_user' # current_user /\ ~Falsy(current_user')) =>
          last'.op = "login" /\ last'.ret = "True" /\ last'.username = current_user'

(* C17: enable_2fa(username) changes the store only when username is the   *)
(* logged-in user; with nobody or another user logged in it returns None   *)
(* and leaves records and current_user as they were.  current_user is set  *)
(* only by a successful login of that username, so 2FA turns on only after *)
(* the user's own successful login.                                        *)
C17_EnableOnlyForSessionUser ==
    []C17_RefusedWithoutSession /\ [][C17_StepNeedsSession]_vars

C17_Witness ==
    /\ last.op = "enable_2fa" /\ last.ret = "None"
    /\ ~Falsy(current_user) /\ current_user # last.username
    /\ HasRecord(last.username) /\ ~TwoFactorOn(last.username)

(* C18: in every reachable state a record has its flag set exactly when it *)
(* holds a secret, the flag is 0 or 1, and a record with 2FA on holds a    *)
(* generated secret, so login verifies a code against a real secret.       *)
C18_FlagIffSecret ==
    \A i \in DOMAIN users :
        /\ users[i].two_factor_enabled \in {0, 1}
        /\ users[i].two_factor_enabled = 1 <=> users[i].two_factor_secret # NULL
        /\ users[i].two_factor_enabled = 1 => users[i].two_factor_secret \in SecretTexts

C18_Witness ==
    /\ \E i \in DOMAIN users : users[i].two_factor_enabled = 1
    /\ \E i \in DOMAIN users : users[i].two_factor_enabled = 0
    /\ last.op = "login" /\ last.ret = "True" /\ TwoFactorOn(last.username)

C19_FailedLoginKeepsState ==
    /\ \A u \in Usernames : \A p \in Passwords : \A c \in TotpInputs(u) :
          LET r == login(u, p, c)
          IN  r.ret # "True" => r.users = users /\ r.current_user = current_user
    /\ (last.op = "login" /\ last.ret # "True" /\ ~Falsy(current_user)) =>
          \A b \in RandomBytes : enable_2fa(current_user, b).ret = "secret"

C19_StepSetsSession ==
    /\ (last'.op = "login" /\ last'.ret # "True" /\ last' # last) =>
          users' = users /\ current_user' = current_user
    /\ current_user' # current_user =>
          \/ last'.op = "login" /\ last'.ret = "True" /\ current_user' = last'.username
          \/ last'.op = "logout" /\ current_user' = None

(* C19: a login that fails (invalid credentials, 2FA required, invalid     *)
(* code) leaves current_user and every record as they were, so a logged-in *)
(* user stays logged in and can still enable 2FA; current_user changes     *)
(* only in a successful login, to its username, or in logout, to None.     *)
C19_SessionChangesOnlyOnSuccessOrLogout ==
    []C19_FailedLoginKeepsState /\ [][C19_StepSetsSession]_vars

C19_Witness ==
    /\ last.op = "login" /\ last.ret = "False"
    /\ last.printed = "Invalid two-factor code."
    /\ ~Falsy(current_user) /\ current_user # last.username

\* Decimal digit k (0 = units) of n, as a character.
DigitOf(n, k) == DigitChars[((n \div (10 ^ k)) % 10) + 1]

\* n below 10^6 written with exactly six decimal digits.
SixDigits(n) ==
    DigitOf(n, 5) \o DigitOf(n, 4) \o DigitOf(n, 3) \o DigitOf(n, 2)
        \o DigitOf(n, 1) \o DigitOf(n, 0)

(* C20: for every 20-byte MAC the offset is the low nibble of the last     *)
(* byte and lies in 0..15, the four bytes from the offset on are inside    *)
(* the MAC, the value combined from them with the top bit of the first     *)
(* cleared lies in 0..2^31-1, and the code is that value mod 1000000       *)
(* written with exactly six decimal digits, zeros leading.                 *)
C20_TruncationWellDefined ==
    mac.offset # -1 =>
        /\ Len(mac.h) = MacLen
        /\ mac.offset \in 0..15
        /\ mac.offset = mac.h[MacLen] - 16 * (mac.h[MacLen] \div 16)
        /\ mac.offset + 4 <= MacLen
        /\ \A k \in 1..4 : mac.offset + k \in DOMAIN mac.h
        /\ mac.binary \in 0..2147483647
        /\ mac.binary =
              (IF mac.h[mac.offset + 1] >= 128 THEN mac.h[mac.offset + 1] - 128
                                               ELSE mac.h[mac.offset + 1]) * 16777216
                + mac.h[mac.offset + 2] * 65536 + mac.h[mac.offset + 3] * 256
                + mac.h[mac.offset + 4]
        /\ Len(mac.code) = CodeDigits
        /\ mac.code = SixDigits(mac.binary % CodeModulus)

C20_Witness ==
    /\ mac.offset = 15 /\ mac.binary = 2147483647 /\ mac.code = "483647"

====
